---- MODULE Spec2Model ----
(***************************************************************************)
(* State-machine model of hwloc's LevelZero discovery backend              *)
(* (hwloc/topology-levelzero.c).                                           *)
(*                                                                         *)
(* The backend is single threaded.  One behaviour of the model is one      *)
(* process that calls hwloc_levelzero_discover() once; the function-static *)
(* variables (memory_from_coreapi, first, warned) are process state.  The  *)
(* vendor runtime (Level Zero core API and Sysman) is the environment: the *)
(* result of every vendor call is drawn from a small set when the call is  *)
(* made.                                                                   *)
(*                                                                         *)
(* Sizes in bytes are 64-bit in the source and exceed the integers of the  *)
(* model checker, so a size is kept as [kb, rem] == kb * 1024 + rem with   *)
(* rem in 0..1023; "size >> 10" is then the kb field and "!size" is        *)
(* kb = 0 /\ rem = 0.                                                      *)
(***************************************************************************)
EXTENDS Integers, Sequences, FiniteSets, TLC

\* ---------------------------------------------------------------- bounds
\* largest number of devices a driver reports
MaxDevices == 2
\* largest number of subdevices a device reports
MaxSubdevices == 2
\* largest number of memory modules Sysman reports for a device
MaxModules == 2

\* number of drivers the runtime may report is drawn from this set
DriverCounts == {0, 1}

\* --------------------------------------------------------- small helpers
NULL == "NULL"

Bytes(kb, rem) == [kb |-> kb, rem |-> rem]

\* "x >> 10" on a byte size
ShiftRightTen(size) == size.kb

\* "!x" on a byte size
IsZeroSize(size) == size.kb = 0 /\ size.rem = 0

\* atoi() on the strings the environment variables take in the model
atoi(s) ==
  CASE s = "-1" -> 0 - 1
    [] s = "0" -> 0
    [] s = "1" -> 1
    [] s = "2" -> 2
    [] OTHER -> 0

\* snprintf(.., "%u", n) and "%llu"
FormatUnsigned(n) == ToString(n)

\* ---------------------------------------------------------------- handles
\* Vendor handles are opaque; the model names them by where they come from.
DeviceHandle(drv, dev) == <<"device", drv, dev>>
SubdeviceHandle(drv, dev, sub) == <<"subdevice", drv, dev, sub>>
\* what a read outside the handle array, or of an array the vendor never
\* filled, yields
Garbage == <<"garbage">>

\* ------------------------------------------------------------------ nodes
\* hwloc_alloc_setup_object() + name/subtype assignment
NewObject(name) == [name |-> name, attrs |-> <<>>]

Keys(node) == {node.attrs[n][1] : n \in 1..Len(node.attrs)}

HasKey(node, key) == \E n \in 1..Len(node.attrs) : node.attrs[n][1] = key

ValuesOf(node, key) ==
  {node.attrs[n][2] : n \in {x \in 1..Len(node.attrs) : node.attrs[x][1] = key}}

CountKey(node, key) == Cardinality({n \in 1..Len(node.attrs) : node.attrs[n][1] = key})

\* hwloc_obj_add_info(): the new pair is appended to the object's info array,
\* also when the key is already present
hwloc_obj_add_info(node, key, value) ==
  [node EXCEPT !.attrs = Append(@, <<key, value>>)]

RECURSIVE AddInfos(_, _)
AddInfos(node, pairs) ==
  IF pairs = <<>> THEN node
  ELSE AddInfos(hwloc_obj_add_info(node, Head(pairs)[1], Head(pairs)[2]), Tail(pairs))

\* ------------------------------------------------------ PropertyCollector
\* the switch on prop.type
DeviceTypeName(type) ==
  CASE type = "ZE_DEVICE_TYPE_GPU" -> "GPU"
    [] type = "ZE_DEVICE_TYPE_CPU" -> "CPU"
    [] type = "ZE_DEVICE_TYPE_FPGA" -> "FPGA"
    [] type = "ZE_DEVICE_TYPE_MCA" -> "MCA"
    [] type = "ZE_DEVICE_TYPE_VPU" -> "VPU"
    [] OTHER -> "Unknown"

\* tolower() over the strings the vendor reports in the model
ToLower(s) ==
  CASE s = "Unknown" -> "unknown"
    [] s = "UNKNOWN" -> "unknown"
    [] OTHER -> s

\* strcasecmp(): 0 when equal up to case
strcasecmp(a, b) == IF ToLower(a) = ToLower(b) THEN 0 ELSE 1

\* the five attributes of a successful zeDeviceGetProperties()
BasicInfos(prop) ==
  << <<"LevelZeroDeviceType", DeviceTypeName(prop.type)>>,
     <<"LevelZeroNumSlices", FormatUnsigned(prop.numSlices)>>,
     <<"LevelZeroNumSubslicesPerSlice", FormatUnsigned(prop.numSubslicesPerSlice)>>,
     <<"LevelZeroNumEUsPerSubslice", FormatUnsigned(prop.numEUsPerSubslice)>>,
     <<"LevelZeroNumThreadsPerEU", FormatUnsigned(prop.numThreadsPerEU)>> >>

\* the attributes of a successful zesDeviceGetProperties()
ExtendedInfos(prop2) ==
  SelectSeq(
    << <<"LevelZeroVendor", prop2.vendorName>>,
       <<"LevelZeroModel", prop2.modelName>>,
       <<"LevelZeroBrand", prop2.brandName>>,
       <<"LevelZeroSerialNumber", prop2.serialNumber>>,
       <<"LevelZeroBoardNumber", prop2.boardNumber>> >>,
    LAMBDA pair : strcasecmp(pair[2], "Unknown") # 0)

ExtendedKeys ==
  {"LevelZeroVendor", "LevelZeroModel", "LevelZeroBrand",
   "LevelZeroSerialNumber", "LevelZeroBoardNumber"}

\* the message the failed extended query prints, "" when it prints nothing
ExtendedFailureMessage(sysman_maybe_missing, hide, warnedIn) ==
  IF warnedIn # 0 THEN ""
  ELSE IF sysman_maybe_missing = 1 /\ ~hide
    THEN "zesDeviceGetProperties() failed (ZES_ENABLE_SYSMAN=1 set too late?)"
  ELSE IF sysman_maybe_missing = 2 /\ ~hide
    THEN "zesDeviceGetProperties() failed (ZES_ENABLE_SYSMAN=0)"
  ELSE ""

\* is the extended query skipped after this basic query
SkipsExtended(basic) ==
  basic.res = "SUCCESS" /\ "SUBDEVICE" \in basic.flags

\* hwloc__levelzero_properties_get(h, osdev, sysman_maybe_missing, is_integrated_p):
\* basic and ext are what zeDeviceGetProperties(h) and zesDeviceGetProperties(h)
\* return; the result holds the node, the integration flag, whether the
\* extended query was issued, the value of the static "warned" afterwards and
\* the message printed
hwloc__levelzero_properties_get(osdev, sysman_maybe_missing, basic, ext, warnedIn, hide) ==
  LET withBasic == IF basic.res = "SUCCESS"
                   THEN AddInfos(osdev, BasicInfos(basic))
                   ELSE osdev
      integrated == IF basic.res = "SUCCESS" /\ "INTEGRATED" \in basic.flags
                    THEN 1 ELSE 0
  IN IF SkipsExtended(basic)
     THEN [node |-> withBasic, is_integrated |-> integrated, ext_called |-> FALSE,
           ext_failed |-> FALSE, warned |-> warnedIn, message |-> ""]
     ELSE IF ext.res = "SUCCESS"
     THEN [node |-> AddInfos(withBasic, ExtendedInfos(ext)),
           is_integrated |-> integrated, ext_called |-> TRUE,
           ext_failed |-> FALSE, warned |-> warnedIn, message |-> ""]
     ELSE [node |-> withBasic, is_integrated |-> integrated, ext_called |-> TRUE,
           ext_failed |-> TRUE, warned |-> 1,
           message |-> ExtendedFailureMessage(sysman_maybe_missing, hide, warnedIn)]

\* ------------------------------------------- CommandQueueGroupCollector
HexDigit(d) ==
  CASE d < 10 -> ToString(d)
    [] d = 10 -> "a" [] d = 11 -> "b" [] d = 12 -> "c"
    [] d = 13 -> "d" [] d = 14 -> "e" [] OTHER -> "f"

RECURSIVE FormatHex(_)
\* snprintf(.., "%lx", n)
FormatHex(n) ==
  IF n < 16 THEN HexDigit(n) ELSE FormatHex(n \div 16) \o HexDigit(n % 16)

RECURSIVE CQGroupInfos(_, _)
\* the loop over the queue groups, from group k on
CQGroupInfos(groups, k) ==
  IF k >= Len(groups) THEN <<>>
  ELSE << <<"LevelZeroCQGroup" \o FormatUnsigned(k),
            FormatUnsigned(groups[k + 1].numQueues) \o "*0x"
              \o FormatHex(groups[k + 1].flags)>> >>
       \o CQGroupInfos(groups, k + 1)

\* hwloc__levelzero_cqprops_get(h, osdev): cq is what the two calls of
\* zeDeviceGetCommandQueueGroupProperties(h) and the malloc() in between yield
hwloc__levelzero_cqprops_get(osdev, cq) ==
  IF cq.res # "SUCCESS" \/ Len(cq.groups) = 0 THEN osdev
  ELSE IF ~cq.malloc_ok THEN osdev
  ELSE IF cq.res2 # "SUCCESS" THEN osdev
  ELSE AddInfos(hwloc_obj_add_info(osdev, "LevelZeroCQGroups",
                                   FormatUnsigned(Len(cq.groups))),
                CQGroupInfos(cq.groups, 0))

\* --------------------------------------------------------- MemoryCollector
\* the switch on mprop.type: "HBM", "DDR" for the DDR family, else "Memory"
MemoryTypeName(type) ==
  CASE type = "ZES_MEM_TYPE_HBM" -> "HBM"
    [] type \in {"ZES_MEM_TYPE_DDR", "ZES_MEM_TYPE_DDR3", "ZES_MEM_TYPE_DDR4",
                 "ZES_MEM_TYPE_DDR5", "ZES_MEM_TYPE_LPDDR", "ZES_MEM_TYPE_LPDDR3",
                 "ZES_MEM_TYPE_LPDDR4", "ZES_MEM_TYPE_LPDDR5"} -> "DDR"
    [] OTHER -> "Memory"

\* mprop.physicalSize after the fallback on zesMemoryGetState()
EffectiveSize(mprop) ==
  IF IsZeroSize(mprop.physicalSize) /\ mprop.stateRes = "SUCCESS"
  THEN mprop.stateSize
  ELSE mprop.physicalSize

\* ModuleTarget without the range check: an index past the last subdevice
\* node is taken for the last one
ModuleTarget_Clamped(mprop, nr_osdevs, sub_osdevs_null) ==
  IF mprop.onSubdevice
  THEN IF nr_osdevs = 0 \/ sub_osdevs_null
       THEN [node |-> "none", index |-> 0]
       ELSE [node |-> "subdevice",
             index |-> IF mprop.subdeviceId >= nr_osdevs THEN nr_osdevs - 1
                       ELSE mprop.subdeviceId]
  ELSE [node |-> "root", index |-> 0]

\* the node a module is attributed to: the root node, the subdevice node of
\* an index, or none (osdev = NULL)
ModuleTarget(mprop, nr_osdevs, sub_osdevs_null) ==
  IF mprop.onSubdevice
  THEN IF mprop.subdeviceId >= nr_osdevs \/ nr_osdevs = 0 \/ sub_osdevs_null
       THEN [node |-> "none", index |-> 0]
       ELSE [node |-> "subdevice", index |-> mprop.subdeviceId]
  ELSE [node |-> "root", index |-> 0]

\* HBMkBOf that leaves out the modules on subdevices
HBMkBOf_RootOnly(mprop) ==
  IF MemoryTypeName(mprop.type) = "HBM" /\ ~mprop.onSubdevice
  THEN ShiftRightTen(EffectiveSize(mprop)) ELSE 0

\* what one module adds to totalHBMkB
HBMkBOf(mprop) ==
  IF MemoryTypeName(mprop.type) = "HBM" THEN ShiftRightTen(EffectiveSize(mprop)) ELSE 0

\* what one module adds to totalDDRkB
DDRkBOf(mprop) ==
  IF MemoryTypeName(mprop.type) = "DDR" THEN ShiftRightTen(EffectiveSize(mprop)) ELSE 0

\* does the module get a per-node attribute, on a subdevice node
AttributedToSubdevice(mprop, nr_osdevs, sub_osdevs_null) ==
  LET target == ModuleTarget(mprop, nr_osdevs, sub_osdevs_null)
  IN target.node # "none" /\ ~IsZeroSize(EffectiveSize(mprop)) /\ target.node # "root"

\* the subdevice nodes after one module of the loop
SubdevicesAfterModule(sub_osdevs, mprop, nr_osdevs, sub_osdevs_null) ==
  IF AttributedToSubdevice(mprop, nr_osdevs, sub_osdevs_null)
  THEN [sub_osdevs EXCEPT ![ModuleTarget(mprop, nr_osdevs, sub_osdevs_null).index + 1] =
          hwloc_obj_add_info(@, "LevelZero" \o MemoryTypeName(mprop.type) \o "Size",
                             FormatUnsigned(ShiftRightTen(EffectiveSize(mprop))))]
  ELSE sub_osdevs

\* the root node after the loop: the aggregates, when not zero
RootAfterModules(root_osdev, hbm, ddr) ==
  LET withHBM == IF hbm # 0
                 THEN hwloc_obj_add_info(root_osdev, "LevelZeroHBMSize", FormatUnsigned(hbm))
                 ELSE root_osdev
  IN IF ddr # 0
     THEN hwloc_obj_add_info(withHBM, "LevelZeroDDRSize", FormatUnsigned(ddr))
     ELSE withHBM

\* IgnoreDDR that forgets the override
IgnoreDDR_NoOverride(mfc, integrated) == integrated # 0

\* int ignore_ddr = (memory_from_coreapi != 2) && is_integrated
IgnoreDDR(mfc, integrated) == mfc # 2 /\ integrated # 0

\* is a domain of the basic source emitted
DomainEmitted(domain, ignore_ddr) ==
  /\ ~IsZeroSize(domain.totalSize)
  /\ ~(ignore_ddr /\ domain.name = "DDR")

\* "LevelZero%sSize" of a domain name, "Memory" when the name is empty
DomainKey(name) == "LevelZero" \o (IF name = "" THEN "Memory" ELSE name) \o "Size"

RECURSIVE DomainInfos(_, _)
\* the loop over the domains of one node
DomainInfos(domains, ignore_ddr) ==
  IF domains = <<>> THEN <<>>
  ELSE (IF DomainEmitted(Head(domains), ignore_ddr)
        THEN << <<DomainKey(Head(domains).name),
                  FormatUnsigned(ShiftRightTen(Head(domains).totalSize))>> >>
        ELSE <<>>)
       \o DomainInfos(Tail(domains), ignore_ddr)

\* hwloc__levelzero_memory_get_from_coreapi(h, osdev, ignore_ddr): mem is what
\* the two calls of zeDeviceGetMemoryProperties(h) and the malloc() yield
hwloc__levelzero_memory_get_from_coreapi(osdev, ignore_ddr, mem) ==
  IF mem.res # "SUCCESS" \/ Len(mem.domains) = 0 THEN osdev
  ELSE IF ~mem.malloc_ok THEN osdev
  ELSE IF mem.res2 # "SUCCESS" THEN osdev
  ELSE AddInfos(osdev, DomainInfos(mem.domains, ignore_ddr))

\* the domains the loop of the basic source goes over
DomainsRead(mem) ==
  IF mem.res = "SUCCESS" /\ mem.malloc_ok /\ mem.res2 = "SUCCESS" THEN mem.domains ELSE <<>>

\* the source the value of memory_from_coreapi stands for
Decision(mfc) ==
  IF mfc = 0 - 1 THEN "Undecided"
  ELSE IF mfc > 0 THEN "Basic"
  ELSE "Detailed"

\* ------------------------------------------------------------ environment
\* What the vendor runtime may answer.  A run is on one of three platforms: on
\* the "faulty" one any vendor call and any malloc() may fail and the devices
\* report no memory; on the "modules" one the property queries succeed and
\* Sysman reports memory modules; on the "domains" one the property queries
\* succeed, devices may be integrated and the core API reports memory domains.
Platforms == {"faulty", "modules", "domains"}

\* values of HWLOC_L0_COREAPI_MEMORY
MemoryOverrides == {"unset", "-1", "0", "1", "2"}

\* values of ZES_ENABLE_SYSMAN
SysmanSettings == {"unset", "0", "1"}

\* values of the OS-device type filter
Filters == {"KEEP_NONE", "KEEP_ALL"}

Results == {"SUCCESS", "ERROR"}

DeviceProperties(res, flags) ==
  [res |-> res, type |-> "ZE_DEVICE_TYPE_GPU", numSlices |-> 1,
   numSubslicesPerSlice |-> 6, numEUsPerSubslice |-> 8, numThreadsPerEU |-> 7,
   flags |-> flags]

\* answers of zeDeviceGetProperties(h); a call on a handle that is no handle
\* fails when it returns
BasicResults(h, pf) ==
  IF h[1] = "device"
  THEN {DeviceProperties("SUCCESS", {})}
       \cup (IF pf = "faulty" THEN {DeviceProperties("ERROR", {})} ELSE {})
       \cup (IF pf = "domains" THEN {DeviceProperties("SUCCESS", {"INTEGRATED"})} ELSE {})
  ELSE IF h[1] = "subdevice"
  THEN {DeviceProperties("SUCCESS", {"SUBDEVICE"})}
       \cup (IF pf = "faulty" THEN {DeviceProperties("ERROR", {})} ELSE {})
  ELSE {DeviceProperties("ERROR", {})}

SysmanProperties(res) ==
  [res |-> res, vendorName |-> "Intel(R) Corporation", modelName |-> "unknown",
   brandName |-> "Unknown", serialNumber |-> "UNKNOWN", boardNumber |-> "BN1"]

\* answers of zesDeviceGetProperties(h)
ExtendedResults(h, pf) ==
  IF h = Garbage THEN {SysmanProperties("ERROR")}
  ELSE IF pf = "faulty" THEN {SysmanProperties("SUCCESS"), SysmanProperties("ERROR")}
  ELSE {SysmanProperties("SUCCESS")}

QueueGroups == << [numQueues |-> 1, flags |-> 3], [numQueues |-> 4, flags |-> 26] >>

CqFailures ==
  {[res |-> "ERROR", groups |-> <<>>, malloc_ok |-> TRUE, res2 |-> "SUCCESS"],
   [res |-> "SUCCESS", groups |-> <<>>, malloc_ok |-> TRUE, res2 |-> "SUCCESS"],
   [res |-> "SUCCESS", groups |-> QueueGroups, malloc_ok |-> FALSE, res2 |-> "SUCCESS"],
   [res |-> "SUCCESS", groups |-> QueueGroups, malloc_ok |-> TRUE, res2 |-> "ERROR"]}

\* answers of the two zeDeviceGetCommandQueueGroupProperties(h) and the malloc()
CqResults(h, pf) ==
  IF h = Garbage THEN CqFailures
  ELSE {[res |-> "SUCCESS", groups |-> QueueGroups, malloc_ok |-> TRUE, res2 |-> "SUCCESS"]}
       \cup (IF pf = "faulty" /\ h[1] = "device" THEN CqFailures ELSE {})

\* an enumeration done in two calls with a malloc() in between: the count n,
\* or one of the three failures
Enumerations(counts) ==
  [res : {"SUCCESS"}, n : counts, malloc_ok : {TRUE}, res2 : {"SUCCESS"}]
  \cup {[res |-> "ERROR", n |-> 0, malloc_ok |-> TRUE, res2 |-> "SUCCESS"],
        [res |-> "SUCCESS", n |-> 1, malloc_ok |-> FALSE, res2 |-> "SUCCESS"],
        [res |-> "SUCCESS", n |-> 1, malloc_ok |-> TRUE, res2 |-> "ERROR"]}

\* answers of the two zeDriverGet() and the malloc()
DriverResults == Enumerations(DriverCounts)

\* answers of the two zeDeviceGet() and the malloc()
DeviceResults == Enumerations(0..MaxDevices)

\* answers of the two zeDeviceGetSubDevices() and the two malloc()
SubdeviceResults(pf) ==
  [res : {"SUCCESS"}, n : 0..MaxSubdevices, subh_ok : {TRUE}, subosdevs_ok : {TRUE},
   fill : IF pf = "faulty" THEN Results ELSE {"SUCCESS"}]
  \cup (IF pf = "faulty"
        THEN [res : {"SUCCESS"}, n : 1..MaxSubdevices, subh_ok : {FALSE},
              subosdevs_ok : BOOLEAN, fill : {"SUCCESS"}]
             \cup [res : {"SUCCESS"}, n : 1..MaxSubdevices, subh_ok : {TRUE},
                   subosdevs_ok : {FALSE}, fill : {"SUCCESS"}]
             \cup {[res |-> "ERROR", n |-> 0, subh_ok |-> TRUE, subosdevs_ok |-> TRUE,
                    fill |-> "SUCCESS"]}
        ELSE {})

MemoryModule(type, size, onSubdevice, subdeviceId, stateRes, stateSize) ==
  [type |-> type, physicalSize |-> size, onSubdevice |-> onSubdevice,
   subdeviceId |-> subdeviceId, stateRes |-> stateRes, stateSize |-> stateSize]

\* what zesMemoryGetProperties() and zesMemoryGetState() may report of a module
ModuleKinds ==
  { MemoryModule("ZES_MEM_TYPE_HBM", Bytes(16777216, 0), FALSE, 0, "ERROR", Bytes(0, 0)),
    MemoryModule("ZES_MEM_TYPE_HBM", Bytes(2, 0), TRUE, 0, "ERROR", Bytes(0, 0)),
    MemoryModule("ZES_MEM_TYPE_HBM", Bytes(4, 512), TRUE, 5, "ERROR", Bytes(0, 0)),
    MemoryModule("ZES_MEM_TYPE_DDR4", Bytes(0, 0), TRUE, 1, "SUCCESS", Bytes(3, 0)),
    MemoryModule("ZES_MEM_TYPE_SRAM", Bytes(8, 0), TRUE, 0, "ERROR", Bytes(0, 0)) }

\* answers of zesMemoryGetProperties(mh[m]) with zesMemoryGetState(mh[m])
ModuleResults ==
  [res : {"SUCCESS"}, mprop : ModuleKinds]
  \cup {[res |-> "ERROR", mprop |-> MemoryModule("ZES_MEM_TYPE_HBM", Bytes(0, 0), FALSE, 0, "ERROR", Bytes(0, 0))]}

\* answers of the two zesDeviceEnumMemoryModules() and the malloc()
SysmanEnumResults(pf) ==
  Enumerations(IF pf = "modules" THEN 0..MaxModules ELSE {0})

MemoryDomain(name, size) == [name |-> name, totalSize |-> size]

\* the domain lists zeDeviceGetMemoryProperties() may report
DomainReports ==
  { << MemoryDomain("DDR", Bytes(4, 0)) >>,
    << MemoryDomain("DDR", Bytes(8, 0)), MemoryDomain("HBM", Bytes(0, 0)),
       MemoryDomain("", Bytes(1, 512)), MemoryDomain("DDR", Bytes(2, 0)) >> }

\* answers of the two zeDeviceGetMemoryProperties(h) and the malloc()
CoreapiResults(h, pf) ==
  {[res |-> "ERROR", domains |-> <<>>, malloc_ok |-> TRUE, res2 |-> "SUCCESS"],
   [res |-> "SUCCESS", domains |-> <<>>, malloc_ok |-> TRUE, res2 |-> "SUCCESS"]}
  \cup (IF pf = "domains"
        THEN [res : {"SUCCESS"}, domains : DomainReports, malloc_ok : {TRUE},
              res2 : {"SUCCESS"}]
             \cup {[res |-> "SUCCESS", domains |-> CHOOSE d \in DomainReports : Len(d) = 1,
                    malloc_ok |-> ok, res2 |-> IF ok THEN "ERROR" ELSE "SUCCESS"]
                   : ok \in BOOLEAN}
        ELSE {})

\* answers of zesDevicePciGetProperties() with hwloc_pci_find_parent_by_busid():
\* the PCI device of a root device is not in the topology on the "faulty"
\* platform and is on the others
PciResults(pf) == IF pf = "faulty" THEN {"ERROR", "NOT_FOUND"} ELSE {"FOUND"}

\* ------------------------------------------------------------------ state
VARIABLES
  platform,              \* which answers the vendor runtime may give
  env_memory,            \* getenv("HWLOC_L0_COREAPI_MEMORY")
  env_sysman,            \* getenv("ZES_ENABLE_SYSMAN")
  hide_errors,           \* hwloc_hide_errors()
  filter,                \* the OS-device type filter of the topology
  memory_from_coreapi,   \* static of hwloc__levelzero_memory_get
  first,                 \* static of hwloc__levelzero_memory_get
  warned,                \* static of hwloc__levelzero_properties_get
  pc,                    \* position in hwloc_levelzero_discover
  ret,                   \* its return value, NULL until it returns
  sysman_maybe_missing,
  nbdrivers, i, nbdevices, j, zeidx,
  osdev,                 \* the root node under construction
  is_integrated,
  nr_subdevices,
  sub_arrays,            \* TRUE when subh and subosdevs are allocated
  subh,                  \* the subdevice handles
  subosdevs,             \* the subdevice nodes built so far
  k,                     \* index of the subdevice loops
  probing,               \* TRUE inside the Sysman call that decides the source
  nr_mems, m, totalHBMkB, totalDDRkB,
  topology,              \* the objects inserted so far, with their parents
  stderr,                \* the diagnostics printed, in order
  vendor_called,         \* has any vendor call been made
  probes,                \* number of Sysman calls made to decide the source
  decided,               \* the first decision committed, "Undecided" before
  ext_failures,          \* number of root devices on which zesDeviceGetProperties() failed, up to 2
  ext_on_subdevice,      \* zesDeviceGetProperties() issued for a subdevice node of this device
  handle_log,            \* index in subh of the handle each collector got, per subdevice node of this device
  oob_read,              \* subh[] was read outside 0..nr_subdevices-1 for this device
  enum_log,              \* what zeDeviceGetSubDevices() answered for this device
  modules_seen,          \* the modules Sysman reported for this device
  domains_seen,          \* the domain lists the core API reported for this device, per node
  source_used            \* the memory source run for this device

config == <<platform, env_memory, hide_errors, filter>>
statics == <<memory_from_coreapi, first, warned>>
loops == <<nbdrivers, i, nbdevices, j, zeidx>>
device == <<osdev, is_integrated, nr_subdevices, sub_arrays, subh, subosdevs, k>>
sysman == <<probing, nr_mems, m, totalHBMkB, totalDDRkB>>
output == <<topology, stderr>>
history == <<vendor_called, probes, decided, ext_failures, ext_on_subdevice,
             handle_log, oob_read, enum_log, modules_seen, domains_seen, source_used>>

vars == <<config, env_sysman, statics, pc, ret, sysman_maybe_missing, loops,
          device, sysman, output, history>>

\* the count zeDeviceGetSubDevices() reported (0 when it failed) and whether
\* both arrays were allocated
EnumLog(sd) ==
  [count |-> IF sd.res = "SUCCESS" THEN sd.n ELSE 0,
   arrays |-> sd.res = "SUCCESS" /\ sd.n > 0 /\ sd.subh_ok /\ sd.subosdevs_ok]

NoEnum == [count |-> 0, arrays |-> FALSE]

Init ==
  /\ platform \in Platforms
  /\ env_memory \in (CASE platform = "modules" -> {"unset", "-1", "0"}
                        [] platform = "domains" -> MemoryOverrides \ {"0"}
                        [] OTHER -> {"unset"})
  /\ env_sysman \in (IF platform = "faulty" THEN SysmanSettings ELSE {"1"})
  /\ hide_errors \in (IF platform = "faulty" THEN BOOLEAN ELSE {FALSE})
  /\ filter \in Filters
  /\ memory_from_coreapi = 0 - 1
  /\ first = 1
  /\ warned = 0
  /\ pc = "start"
  /\ ret = NULL
  /\ sysman_maybe_missing = 0
  /\ nbdrivers = 0 /\ i = 0 /\ nbdevices = 0 /\ j = 0 /\ zeidx = 0
  /\ osdev = NewObject(NULL)
  /\ is_integrated = 0
  /\ nr_subdevices = 0
  /\ sub_arrays = FALSE
  /\ subh = <<>>
  /\ subosdevs = <<>>
  /\ k = 0
  /\ probing = FALSE
  /\ nr_mems = 0 /\ m = 0 /\ totalHBMkB = 0 /\ totalDDRkB = 0
  /\ topology = <<>>
  /\ stderr = <<>>
  /\ vendor_called = FALSE
  /\ probes = 0
  /\ decided = "Undecided"
  /\ ext_failures = 0
  /\ ext_on_subdevice = FALSE
  /\ handle_log = <<>>
  /\ oob_read = FALSE
  /\ enum_log = NoEnum
  /\ modules_seen = <<>>
  /\ domains_seen = <<>>
  /\ source_used = "none"

\* ---------------------------------------------------------------- actions
Min(a, b) == IF a < b THEN a ELSE b

\* subh[idx] as the build reads it: the handle when idx is inside the array
ReadSubh(idx) == IF idx < Len(subh) THEN subh[idx + 1] ELSE Garbage

\* lines 343-383: the filter, ZES_ENABLE_SYSMAN, zeInit() and zeDriverGet()
DiscoverBegin ==
  /\ pc = "start"
  /\ \E init \in Results, dr \in DriverResults :
       IF filter = "KEEP_NONE"
       THEN /\ pc' = "done" /\ ret' = 0
            /\ UNCHANGED <<env_sysman, sysman_maybe_missing, loops, output, vendor_called>>
       ELSE /\ env_sysman' = IF env_sysman = "unset" THEN "1" ELSE env_sysman
            /\ sysman_maybe_missing' = IF env_sysman = "unset" THEN 1
                                       ELSE IF atoi(env_sysman) = 0 THEN 2 ELSE 0
            /\ vendor_called' = TRUE
            /\ IF init # "SUCCESS"
               THEN /\ stderr' = IF hide_errors THEN stderr
                                 ELSE Append(stderr, "Failed to initialize LevelZero in ze_init()")
                    /\ pc' = "done" /\ ret' = 0
                    /\ UNCHANGED <<loops, topology>>
               ELSE IF dr.res # "SUCCESS" \/ dr.n = 0 \/ ~dr.malloc_ok \/ dr.res2 # "SUCCESS"
               THEN /\ pc' = "done" /\ ret' = 0
                    /\ UNCHANGED <<loops, output>>
               ELSE /\ nbdrivers' = dr.n /\ i' = 0 /\ zeidx' = 0
                    /\ pc' = "driver"
                    /\ UNCHANGED <<ret, nbdevices, j, output>>
  /\ UNCHANGED <<config, statics, device, sysman, probes, decided, ext_failures,
                 ext_on_subdevice, handle_log, oob_read, enum_log, modules_seen,
                 domains_seen, source_used>>

\* lines 386-402 and 496-497: one turn of the loop over the drivers
DriverLoop ==
  /\ pc = "driver"
  /\ \E dv \in DeviceResults :
       IF i >= nbdrivers
       THEN /\ pc' = "done" /\ ret' = 0
            /\ UNCHANGED loops
       ELSE IF dv.res # "SUCCESS" \/ dv.n = 0 \/ ~dv.malloc_ok \/ dv.res2 # "SUCCESS"
       THEN /\ i' = i + 1
            /\ UNCHANGED <<pc, ret, nbdrivers, nbdevices, j, zeidx>>
       ELSE /\ nbdevices' = dv.n /\ j' = 0
            /\ pc' = "device"
            /\ UNCHANGED <<ret, nbdrivers, i, zeidx>>
  /\ UNCHANGED <<config, env_sysman, statics, sysman_maybe_missing, device, sysman,
                 output, history>>

\* lines 404-423 and 493: one turn of the loop over the devices of a driver,
\* up to the three attributes of the new root node
DeviceBegin ==
  /\ pc = "device"
  /\ IF j >= nbdevices
     THEN /\ i' = i + 1
          /\ pc' = "driver"
          /\ UNCHANGED <<device, ext_on_subdevice, handle_log, oob_read, enum_log,
                         modules_seen, domains_seen, source_used>>
     ELSE /\ osdev' = AddInfos(NewObject("ze" \o FormatUnsigned(zeidx)),
                               << <<"Backend", "LevelZero">>,
                                  <<"LevelZeroDriverIndex", FormatUnsigned(i)>>,
                                  <<"LevelZeroDriverDeviceIndex", FormatUnsigned(j)>> >>)
          /\ is_integrated' = 0
          /\ nr_subdevices' = 0
          /\ sub_arrays' = FALSE /\ subh' = <<>> /\ subosdevs' = <<>> /\ k' = 0
          /\ ext_on_subdevice' = FALSE /\ handle_log' = <<>> /\ oob_read' = FALSE
          /\ enum_log' = NoEnum /\ modules_seen' = <<>> /\ domains_seen' = <<>>
          /\ source_used' = "none"
          /\ pc' = "properties"
          /\ i' = i
  /\ UNCHANGED <<config, env_sysman, statics, ret, sysman_maybe_missing, nbdrivers,
                 nbdevices, j, zeidx, sysman, output, vendor_called, probes, decided,
                 ext_failures>>

\* line 425: hwloc__levelzero_properties_get(dvh[j], osdev, .., &is_integrated)
RootProperties ==
  /\ pc = "properties"
  /\ \E basic \in BasicResults(DeviceHandle(i, j), platform),
        ext \in ExtendedResults(DeviceHandle(i, j), platform) :
       LET r == hwloc__levelzero_properties_get(osdev, sysman_maybe_missing, basic, ext,
                                                warned, hide_errors)
       IN /\ osdev' = r.node
          /\ is_integrated' = r.is_integrated
          /\ warned' = r.warned
          /\ stderr' = IF r.message = "" THEN stderr ELSE Append(stderr, r.message)
          /\ ext_failures' = IF r.ext_failed THEN Min(ext_failures + 1, 2) ELSE ext_failures
  /\ pc' = "cqprops"
  /\ UNCHANGED <<config, env_sysman, memory_from_coreapi, first, ret, sysman_maybe_missing,
                 loops, nr_subdevices, sub_arrays, subh, subosdevs, k, sysman, topology,
                 vendor_called, probes, decided, ext_on_subdevice, handle_log, oob_read,
                 enum_log, modules_seen, domains_seen, source_used>>

\* line 427: hwloc__levelzero_cqprops_get(dvh[j], osdev)
RootCqprops ==
  /\ pc = "cqprops"
  /\ \E cq \in CqResults(DeviceHandle(i, j), platform) :
       osdev' = hwloc__levelzero_cqprops_get(osdev, cq)
  /\ pc' = "subdevices"
  /\ UNCHANGED <<config, env_sysman, statics, ret, sysman_maybe_missing, loops,
                 is_integrated, nr_subdevices, sub_arrays, subh, subosdevs, k, sysman,
                 output, history>>

\* lines 429-439 and 455-460: the subdevice count, its attribute, the two
\* arrays and the call that fills subh
EnumSubdevices ==
  /\ pc = "subdevices"
  /\ \E sd \in SubdeviceResults(platform) :
       /\ enum_log' = EnumLog(sd)
       /\ IF sd.res = "SUCCESS" /\ sd.n > 0
          THEN /\ osdev' = hwloc_obj_add_info(osdev, "LevelZeroSubdevices", FormatUnsigned(sd.n))
               /\ IF sd.subosdevs_ok /\ sd.subh_ok
                  THEN /\ nr_subdevices' = sd.n
                       /\ sub_arrays' = TRUE
                       /\ subh' = [x \in 1..sd.n |->
                                     IF sd.fill = "SUCCESS"
                                     THEN SubdeviceHandle(i, j, x - 1) ELSE Garbage]
                       /\ pc' = "subdevice"
                  ELSE /\ nr_subdevices' = 0
                       /\ sub_arrays' = FALSE
                       /\ subh' = <<>>
                       /\ pc' = "memory"
          ELSE /\ osdev' = osdev
               /\ nr_subdevices' = 0
               /\ sub_arrays' = FALSE
               /\ subh' = <<>>
               /\ pc' = "memory"
  /\ subosdevs' = <<>>
  /\ k' = 0
  /\ UNCHANGED <<config, env_sysman, statics, ret, sysman_maybe_missing, loops,
                 is_integrated, sysman, output, vendor_called, probes, decided,
                 ext_failures, ext_on_subdevice, handle_log, oob_read, modules_seen,
                 domains_seen, source_used>>

\* lines 440-454: one turn of the loop over the subdevices: the node, its two
\* attributes, the property collector on subh[j], the queue-group collector
\* on subh[k]
SubdeviceNode ==
  /\ pc = "subdevice"
  /\ IF k >= nr_subdevices
     THEN /\ pc' = "memory"
          /\ UNCHANGED <<subosdevs, k, warned, stderr, ext_on_subdevice,
                         handle_log, oob_read>>
     ELSE \E basic \in BasicResults(ReadSubh(j), platform),
             ext \in ExtendedResults(ReadSubh(j), platform),
             cq \in CqResults(ReadSubh(k), platform) :
            LET node == AddInfos(NewObject("ze" \o FormatUnsigned(zeidx) \o "."
                                           \o FormatUnsigned(k)),
                                 << <<"Backend", "LevelZero">>,
                                    <<"LevelZeroSubdeviceID", FormatUnsigned(k)>> >>)
                r == hwloc__levelzero_properties_get(node, sysman_maybe_missing, basic,
                                                     ext, warned, hide_errors)
            IN /\ subosdevs' = Append(subosdevs, hwloc__levelzero_cqprops_get(r.node, cq))
               /\ warned' = r.warned
               /\ stderr' = IF r.message = "" THEN stderr ELSE Append(stderr, r.message)
               /\ ext_on_subdevice' = (ext_on_subdevice \/ r.ext_called)
               /\ handle_log' = Append(handle_log,
                                       [properties_index |-> j, cqprops_index |-> k])
               /\ oob_read' = (oob_read \/ j >= nr_subdevices)
               /\ k' = k + 1
               /\ pc' = pc
  /\ UNCHANGED <<config, env_sysman, memory_from_coreapi, first, ret, sysman_maybe_missing,
                 loops, osdev, is_integrated, nr_subdevices, sub_arrays, subh, sysman,
                 topology, vendor_called, probes, decided, ext_failures, enum_log,
                 modules_seen, domains_seen, source_used>>

\* lines 290-323 of hwloc__levelzero_memory_get, called at line 464: the
\* first-time block, then the choice of the source; en is what
\* zesDeviceEnumMemoryModules() answers when the Sysman source is entered
MemoryGet ==
  /\ pc = "memory"
  /\ \E en \in SysmanEnumResults(platform) :
       LET mfc == IF first = 1 /\ env_memory # "unset"
                  THEN atoi(env_memory) ELSE memory_from_coreapi
           probe == first = 1 /\ mfc = 0 - 1
           count == IF en.malloc_ok /\ en.res2 = "SUCCESS" THEN en.n ELSE 0
       IN IF probe /\ en.res = "SUCCESS"
          THEN \* the Sysman call of line 297 goes on
               /\ memory_from_coreapi' = mfc /\ first' = first
               /\ probes' = probes + 1
               /\ decided' = decided
               /\ probing' = TRUE
               /\ nr_mems' = count /\ m' = 0 /\ totalHBMkB' = 0 /\ totalDDRkB' = 0
               /\ source_used' = "sysman"
               /\ pc' = "sysman"
          ELSE IF probe
          THEN \* the Sysman call of line 297 returned -1
               /\ memory_from_coreapi' = 1 /\ first' = 0
               /\ probes' = probes + 1
               /\ decided' = IF decided = "Undecided" THEN "Basic" ELSE decided
               /\ source_used' = "coreapi"
               /\ pc' = "coreapi_root"
               /\ UNCHANGED sysman
          ELSE /\ memory_from_coreapi' = mfc /\ first' = 0
               /\ probes' = probes
               /\ decided' = IF decided = "Undecided" THEN Decision(mfc) ELSE decided
               /\ IF mfc > 0
                  THEN /\ source_used' = "coreapi"
                       /\ pc' = "coreapi_root"
                       /\ UNCHANGED sysman
                  ELSE /\ source_used' = "sysman"
                       /\ probing' = FALSE
                       /\ nr_mems' = IF en.res = "SUCCESS" THEN count ELSE 0
                       /\ m' = 0 /\ totalHBMkB' = 0 /\ totalDDRkB' = 0
                       /\ pc' = IF en.res = "SUCCESS" THEN "sysman" ELSE "attach"
  /\ k' = 0
  /\ UNCHANGED <<config, env_sysman, warned, ret, sysman_maybe_missing, loops, osdev,
                 is_integrated, nr_subdevices, sub_arrays, subh, subosdevs, output,
                 vendor_called, ext_failures, ext_on_subdevice, handle_log, oob_read,
                 enum_log, modules_seen, domains_seen>>

\* lines 156-218: one turn of the loop over the memory modules
SysmanModule ==
  /\ pc = "sysman"
  /\ m < nr_mems
  /\ \E mr \in ModuleResults :
       IF mr.res = "SUCCESS"
       THEN /\ totalHBMkB' = totalHBMkB + HBMkBOf(mr.mprop)
            /\ totalDDRkB' = totalDDRkB + DDRkBOf(mr.mprop)
            /\ subosdevs' = SubdevicesAfterModule(subosdevs, mr.mprop, nr_subdevices,
                                                  ~sub_arrays)
            /\ modules_seen' = Append(modules_seen, mr.mprop)
       ELSE UNCHANGED <<totalHBMkB, totalDDRkB, subosdevs, modules_seen>>
  /\ m' = m + 1
  /\ UNCHANGED <<config, env_sysman, statics, pc, ret, sysman_maybe_missing, loops, osdev,
                 is_integrated, nr_subdevices, sub_arrays, subh, k, probing, nr_mems,
                 output, vendor_called, probes, decided, ext_failures, ext_on_subdevice,
                 handle_log, oob_read, enum_log, domains_seen, source_used>>

\* lines 223-235, and lines 298-302 when the call was the one of line 297
SysmanEnd ==
  /\ pc = "sysman"
  /\ m >= nr_mems
  /\ osdev' = RootAfterModules(osdev, totalHBMkB, totalDDRkB)
  /\ memory_from_coreapi' = IF probing THEN 0 ELSE memory_from_coreapi
  /\ decided' = IF probing /\ decided = "Undecided" THEN "Detailed" ELSE decided
  /\ probing' = FALSE
  /\ pc' = "attach"
  /\ UNCHANGED <<config, env_sysman, first, warned, ret, sysman_maybe_missing, loops,
                 is_integrated, nr_subdevices, sub_arrays, subh, subosdevs, k, nr_mems, m,
                 totalHBMkB, totalDDRkB, output, vendor_called, probes, ext_failures,
                 ext_on_subdevice, handle_log, oob_read, enum_log, modules_seen,
                 domains_seen, source_used>>

\* lines 314-315: the basic source on the root node
CoreapiRoot ==
  /\ pc = "coreapi_root"
  /\ \E mem \in CoreapiResults(DeviceHandle(i, j), platform) :
       LET ignore_ddr == IgnoreDDR(memory_from_coreapi, is_integrated)
       IN /\ osdev' = hwloc__levelzero_memory_get_from_coreapi(osdev, ignore_ddr, mem)
          /\ domains_seen' = Append(domains_seen, DomainsRead(mem))
  /\ k' = 0
  /\ pc' = "coreapi_sub"
  /\ UNCHANGED <<config, env_sysman, statics, ret, sysman_maybe_missing, loops,
                 is_integrated, nr_subdevices, sub_arrays, subh, subosdevs, sysman, output,
                 vendor_called, probes, decided, ext_failures, ext_on_subdevice,
                 handle_log, oob_read, enum_log, modules_seen, source_used>>

\* lines 316-317: one turn of the loop of the basic source over the subdevices
CoreapiSubdevice ==
  /\ pc = "coreapi_sub"
  /\ IF k >= nr_subdevices
     THEN /\ pc' = "attach"
          /\ UNCHANGED <<subosdevs, k, domains_seen>>
     ELSE \E mem \in CoreapiResults(ReadSubh(k), platform) :
            LET ignore_ddr == IgnoreDDR(memory_from_coreapi, is_integrated)
            IN /\ subosdevs' = [subosdevs EXCEPT ![k + 1] =
                                  hwloc__levelzero_memory_get_from_coreapi(@, ignore_ddr, mem)]
               /\ domains_seen' = Append(domains_seen, DomainsRead(mem))
               /\ k' = k + 1
               /\ pc' = pc
  /\ UNCHANGED <<config, env_sysman, statics, ret, sysman_maybe_missing, loops, osdev,
                 is_integrated, nr_subdevices, sub_arrays, subh, sysman, output,
                 vendor_called, probes, decided, ext_failures, ext_on_subdevice,
                 handle_log, oob_read, enum_log, modules_seen, source_used>>

\* hwloc_insert_object_by_parent(topology, parent, obj)
hwloc_insert_object_by_parent(topo, parent, obj) ==
  Append(topo, [name |-> obj.name, parent |-> parent])

RECURSIVE InsertSubdevices(_, _, _, _)
\* lines 483-486: the loop that inserts subosdevs[from], .., subosdevs[nr - 1]
InsertSubdevices(topo, root, nodes, from) ==
  IF from >= Len(nodes) THEN topo
  ELSE InsertSubdevices(hwloc_insert_object_by_parent(topo, root.name, nodes[from + 1]),
                        root, nodes, from + 1)

\* InsertedSubdevices with a loop that starts at 1
InsertedSubdevices_SkipFirst(nodes, nr) == SubSeq(nodes, 2, nr)

\* the subdevice nodes the insertion loop of lines 483-486 visits
InsertedSubdevices(nodes, nr) == SubSeq(nodes, 1, nr)

\* lines 466-490: the parent of the root node, the insertions, the next device
Attach ==
  /\ pc = "attach"
  /\ \E pci \in PciResults(platform) :
       LET parent == IF pci = "FOUND" THEN "PCI" ELSE "Machine"
       IN topology' = InsertSubdevices(hwloc_insert_object_by_parent(topology, parent, osdev),
                                       osdev, InsertedSubdevices(subosdevs, nr_subdevices), 0)
  /\ zeidx' = zeidx + 1
  /\ j' = j + 1
  /\ pc' = "device"
  /\ UNCHANGED <<config, env_sysman, statics, ret, sysman_maybe_missing, nbdrivers, i,
                 nbdevices, device, sysman, stderr, history>>

\* a vendor call on a handle that is no handle may end the process
Crash ==
  /\ \/ /\ pc = "subdevice" /\ k < nr_subdevices
        /\ Garbage \in {ReadSubh(j), ReadSubh(k)}
     \/ /\ pc = "coreapi_sub" /\ k < nr_subdevices
        /\ ReadSubh(k) = Garbage
  /\ pc' = "crashed"
  /\ UNCHANGED <<config, env_sysman, statics, ret, sysman_maybe_missing, loops, device,
                 sysman, output, history>>

Next ==
  \/ DiscoverBegin
  \/ DriverLoop
  \/ DeviceBegin
  \/ RootProperties
  \/ RootCqprops
  \/ EnumSubdevices
  \/ SubdeviceNode
  \/ MemoryGet
  \/ SysmanModule
  \/ SysmanEnd
  \/ CoreapiRoot
  \/ CoreapiSubdevice
  \/ Attach
  \/ Crash

Spec == Init /\ [][Next]_vars

\* ----------------------------------------------------------------- claims
\* the nodes of the device being processed: the root node, then its subdevices
DeviceNodes == <<osdev>> \o subosdevs

MemoryKeys == {"LevelZeroHBMSize", "LevelZeroDDRSize", "LevelZeroMemorySize"}

\* the memory attributes of a node, in order
MemoryInfosOf(node) == SelectSeq(node.attrs, LAMBDA pair : pair[1] \in MemoryKeys)

\* the values of one key of a node, in order
ValueSeqOf(node, key) ==
  LET hits == SelectSeq(node.attrs, LAMBDA pair : pair[1] = key)
  IN [n \in 1..Len(hits) |-> hits[n][2]]

DDRFamily ==
  {"ZES_MEM_TYPE_DDR", "ZES_MEM_TYPE_DDR3", "ZES_MEM_TYPE_DDR4", "ZES_MEM_TYPE_DDR5",
   "ZES_MEM_TYPE_LPDDR", "ZES_MEM_TYPE_LPDDR3", "ZES_MEM_TYPE_LPDDR4",
   "ZES_MEM_TYPE_LPDDR5"}

\* the label of a reported module: HBM, DDR for the DDR family, else Memory
ReportedLabel(mp) ==
  IF mp.type = "ZES_MEM_TYPE_HBM" THEN "HBM"
  ELSE IF mp.type \in DDRFamily THEN "DDR"
  ELSE "Memory"

\* the size of a reported module: the physical size, or the size of its state
\* when the physical size is unknown and the state is available
ReportedSize(mp) ==
  IF mp.physicalSize = Bytes(0, 0) /\ mp.stateRes = "SUCCESS"
  THEN mp.stateSize ELSE mp.physicalSize

ReportedKB(mp) == ReportedSize(mp).kb

\* is the module flagged on-subdevice with an index that is no subdevice node
OutOfRange(mp, nr) == mp.onSubdevice /\ ~(mp.subdeviceId < nr)

\* is the module in a part of the modules of a device with nr subdevice
\* nodes: "all", "outside" (out of range) or "inside" (the others)
InPart(mp, part, nr) ==
  \/ part = "all"
  \/ part = "outside" /\ OutOfRange(mp, nr)
  \/ part = "inside" /\ ~OutOfRange(mp, nr)

RECURSIVE SumKB(_, _, _, _)
\* sum of the kilobytes of the modules of a label in a part
SumKB(mods, label, part, nr) ==
  IF mods = <<>> THEN 0
  ELSE (IF ReportedLabel(Head(mods)) = label /\ InPart(Head(mods), part, nr)
        THEN ReportedKB(Head(mods)) ELSE 0)
       + SumKB(Tail(mods), label, part, nr)

RECURSIVE ExpectedSubdeviceInfos(_, _, _)
\* the memory attributes the modules give subdevice node idx of nr nodes
ExpectedSubdeviceInfos(mods, idx, nr) ==
  IF mods = <<>> THEN <<>>
  ELSE (IF /\ Head(mods).onSubdevice
           /\ Head(mods).subdeviceId = idx
           /\ idx < nr
           /\ ReportedSize(Head(mods)) # Bytes(0, 0)
        THEN << <<"LevelZero" \o ReportedLabel(Head(mods)) \o "Size",
                  ToString(ReportedKB(Head(mods)))>> >>
        ELSE <<>>)
       \o ExpectedSubdeviceInfos(Tail(mods), idx, nr)

\* C1: however often the memory collector runs in a process, the Sysman call
\* that decides between the detailed and the basic source is made at most
\* once, and a decision once committed (Detailed or Basic) never changes.
C1_ProbeOnceDecisionStable ==
  /\ probes <= 1
  /\ decided # "Undecided" => Decision(memory_from_coreapi) = decided

ExtendedDiagnostics ==
  SelectSeq(stderr, LAMBDA msg :
    msg \in {"zesDeviceGetProperties() failed (ZES_ENABLE_SYSMAN=1 set too late?)",
             "zesDeviceGetProperties() failed (ZES_ENABLE_SYSMAN=0)",
             "zesDeviceGetProperties() failed"})

\* C2: when zesDeviceGetProperties() has failed on two or more devices and
\* diagnostics are not suppressed, exactly one diagnostic about it has been
\* printed, whatever the cause (requested too late, disabled, or unknown).
C2_ExactlyOneDiagnostic ==
  (ext_failures >= 2 /\ ~hide_errors) => Len(ExtendedDiagnostics) = 1

\* C3: in the detailed source a module flagged on-subdevice whose subdeviceId
\* is not below the number of subdevice nodes adds no attribute to any
\* subdevice node (each subdevice node holds exactly the attributes of the
\* modules with its own index) and no per-module attribute to the root, and
\* its kilobytes are part of the root aggregate of its type.
C3_OutOfRangeModule ==
  source_used = "sysman" =>
    /\ \A idx \in 1..Len(subosdevs) :
         MemoryInfosOf(subosdevs[idx])
           = ExpectedSubdeviceInfos(modules_seen, idx - 1, nr_subdevices)
    /\ CountKey(osdev, "LevelZeroMemorySize") = 0
    /\ CountKey(osdev, "LevelZeroHBMSize") <= 1
    /\ CountKey(osdev, "LevelZeroDDRSize") <= 1
    /\ pc = "attach" =>
         \A label \in {"HBM", "DDR"} :
           LET outside == SumKB(modules_seen, label, "outside", nr_subdevices)
               inside == SumKB(modules_seen, label, "inside", nr_subdevices)
           IN outside > 0 =>
                ValueSeqOf(osdev, "LevelZero" \o label \o "Size")
                  = <<ToString(inside + outside)>>

C3_Witness ==
  /\ source_used = "sysman" /\ pc = "attach"
  /\ nr_subdevices = 2
  /\ \E n \in 1..Len(modules_seen) :
       /\ OutOfRange(modules_seen[n], nr_subdevices)
       /\ modules_seen[n].subdeviceId = 5
       /\ ReportedKB(modules_seen[n]) > 0
  /\ HasKey(osdev, "LevelZeroHBMSize")
  /\ \A idx \in 1..Len(subosdevs) : MemoryInfosOf(subosdevs[idx]) = <<>>

\* C4: discover always returns 0, whatever the vendor calls and the
\* allocations do; it inserts no node when the filter is KEEP_NONE, when
\* zeInit() fails or when no driver is enumerated, and makes no vendor call
\* at all when the filter is KEEP_NONE.
C4_AlwaysReturnsZero ==
  /\ pc # "crashed"
  /\ pc = "done" => ret = 0
  /\ (pc = "done" /\ nbdrivers = 0) => topology = <<>>
  /\ filter = "KEEP_NONE" => ~vendor_called /\ topology = <<>>

\* has the root node of the device being processed been inserted
RootInserted ==
  \E n \in 1..Len(topology) :
    topology[n].name = osdev.name /\ topology[n].parent \in {"PCI", "Machine"}

ChildrenOf(name) == {n \in 1..Len(topology) : topology[n].parent = name}

\* C5: for a device whose two subdevice arrays were allocated, the subdevice
\* nodes created, and those inserted as children of its root node, are as
\* many as zeDeviceGetSubDevices() counted.
C5_SubdeviceNodeCount ==
  enum_log.arrays =>
    /\ pc \in {"memory", "sysman", "coreapi_root", "coreapi_sub", "attach"}
         => Len(subosdevs) = enum_log.count
    /\ RootInserted => Cardinality(ChildrenOf(osdev.name)) = enum_log.count

C5_Witness ==
  /\ enum_log.arrays /\ enum_log.count = 2
  /\ RootInserted
  /\ Cardinality(ChildrenOf(osdev.name)) = 2

RECURSIVE ExpectedDDRValues(_)
\* the values of the non-empty domains named "DDR", in kilobytes
ExpectedDDRValues(domains) ==
  IF domains = <<>> THEN <<>>
  ELSE (IF Head(domains).name = "DDR" /\ Head(domains).totalSize # Bytes(0, 0)
        THEN <<ToString(Head(domains).totalSize.kb)>> ELSE <<>>)
       \o ExpectedDDRValues(Tail(domains))

\* C6: with the basic source, on an integrated device and unless the override
\* is 2, no node gets a LevelZeroDDRSize attribute; with the override 2 or on
\* a device that is not integrated every non-empty domain named "DDR" gives
\* its node a LevelZeroDDRSize attribute in kilobytes.
C6_IntegratedDDR ==
  source_used = "coreapi" =>
    \A n \in 1..Len(DeviceNodes) :
      ValueSeqOf(DeviceNodes[n], "LevelZeroDDRSize")
        = IF n > Len(domains_seen) THEN <<>>
          ELSE IF is_integrated = 1 /\ memory_from_coreapi # 2 THEN <<>>
          ELSE ExpectedDDRValues(domains_seen[n])

C6_Witness ==
  /\ source_used = "coreapi" /\ pc = "attach"
  /\ is_integrated = 1 /\ memory_from_coreapi = 1
  /\ Len(domains_seen) = 3
  /\ \A n \in 1..3 : ExpectedDDRValues(domains_seen[n]) # <<>>
  /\ \A n \in 1..3 : ~HasKey(DeviceNodes[n], "LevelZeroDDRSize")

\* C7: in the detailed source the root aggregate of HBM, and that of the DDR
\* family, is the sum of the kilobytes of all modules of the type reported for
\* the device, wherever they are targeted; it is absent while modules are
\* processed, added once afterwards, and only when not zero.  One HBM module
\* of 17179869184 bytes on the root of a device without subdevices gives the
\* root 16777216 and no subdevice attribute.
C7_RootAggregates ==
  source_used = "sysman" =>
    /\ pc = "sysman" =>
         ~HasKey(osdev, "LevelZeroHBMSize") /\ ~HasKey(osdev, "LevelZeroDDRSize")
    /\ pc = "attach" =>
         \A label \in {"HBM", "DDR"} :
           LET total == SumKB(modules_seen, label, "all", nr_subdevices)
           IN ValueSeqOf(osdev, "LevelZero" \o label \o "Size")
                = IF total = 0 THEN <<>> ELSE <<ToString(total)>>
    /\ ( /\ pc = "attach"
         /\ nr_subdevices = 0
         /\ modules_seen = << MemoryModule("ZES_MEM_TYPE_HBM", Bytes(16777216, 0),
                                           FALSE, 0, "ERROR", Bytes(0, 0)) >> )
       => /\ ValueSeqOf(osdev, "LevelZeroHBMSize") = <<"16777216">>
          /\ subosdevs = <<>>

C7_Witness ==
  /\ source_used = "sysman" /\ pc = "attach"
  /\ Len(modules_seen) = 2
  /\ modules_seen[1].type = "ZES_MEM_TYPE_HBM" /\ ~modules_seen[1].onSubdevice
  /\ modules_seen[2].type = "ZES_MEM_TYPE_HBM" /\ modules_seen[2].onSubdevice
  /\ ValueSeqOf(osdev, "LevelZeroHBMSize") = <<"16777218">>

\* C8: zesDeviceGetProperties() is never issued while the property collector
\* works for a subdevice node, and no subdevice node holds a vendor, model,
\* brand, serial or board attribute.
C8_NoExtendedQueryOnSubdevice ==
  /\ ~ext_on_subdevice
  /\ \A idx \in 1..Len(subosdevs) : Keys(subosdevs[idx]) \cap ExtendedKeys = {}

\* C9: no node, root or subdevice, ever holds two attributes with the same key.
C9_NoDuplicateKeys ==
  \A n \in 1..Len(DeviceNodes) :
    \A key \in Keys(DeviceNodes[n]) : CountKey(DeviceNodes[n], key) = 1

\* C10: for subdevice node k both collectors get the handle read at index k
\* of the subdevice-handle array, and the array is never read outside
\* 0..count-1.
C10_SubdeviceHandles ==
  /\ ~oob_read
  /\ \A n \in 1..Len(handle_log) :
       /\ handle_log[n].properties_index = n - 1
       /\ handle_log[n].cqprops_index = n - 1

\* C11: once a device has been processed, a LevelZeroSubdevices attribute on
\* its root node holds the number of subdevice nodes inserted as children of
\* that root node, also when a malloc() of the subdevice arrays failed and
\* the device was treated as having no subdevices.
C11_SubdeviceCountAttribute ==
  (RootInserted /\ HasKey(osdev, "LevelZeroSubdevices")) =>
    ValueSeqOf(osdev, "LevelZeroSubdevices")
      = <<ToString(Cardinality(ChildrenOf(osdev.name)))>>

====
